---- MODULE Spec2Model ----
(***************************************************************************)
(* A model of transaction_processor.py (TransactionProcessor) and of       *)
(* db_loader.py (PostgresTransactionLoader, main).                         *)
(*                                                                         *)
(* Python strings are sequences of one-character strings.  None is the     *)
(* one-element sequence None below, which no Python string equals.         *)
(***************************************************************************)
EXTENDS Integers, Sequences, FiniteSets, TLC

None == <<"<None>">>

Digits == {"0", "1", "2", "3", "4", "5", "6", "7", "8", "9"}

NonZeroDigits == Digits \ {"0"}

\* The characters str.strip() and float() treat as surrounding whitespace.
Whitespace == {" ", "\t", "\n", "\r"}

DigitVal(c) ==
    CASE c = "0" -> 0 [] c = "1" -> 1 [] c = "2" -> 2 [] c = "3" -> 3
      [] c = "4" -> 4 [] c = "5" -> 5 [] c = "6" -> 6 [] c = "7" -> 7
      [] c = "8" -> 8 [] c = "9" -> 9

DigitChar(n) ==
    CASE n = 0 -> "0" [] n = 1 -> "1" [] n = 2 -> "2" [] n = 3 -> "3"
      [] n = 4 -> "4" [] n = 5 -> "5" [] n = 6 -> "6" [] n = 7 -> "7"
      [] n = 8 -> "8" [] n = 9 -> "9"

IsDigits(s) == \A i \in 1..Len(s) : s[i] \in Digits

\* int(s) of a digit string (0 for the empty string).
RECURSIVE IntOf(_)
IntOf(s) ==
    IF s = <<>> THEN 0
    ELSE 10 * IntOf(SubSeq(s, 1, Len(s) - 1)) + DigitVal(s[Len(s)])

\* str(n) of a natural number.
RECURSIVE StrOfNat(_)
StrOfNat(n) ==
    IF n < 10 THEN <<DigitChar(n)>>
    ELSE StrOfNat(n \div 10) \o <<DigitChar(n % 10)>>

\* n rendered with at least w digits, zero-padded on the left.
RECURSIVE ZeroPad(_, _)
ZeroPad(s, w) == IF Len(s) >= w THEN s ELSE ZeroPad(<<"0">> \o s, w)

\* str.replace(c, ''): every occurrence of the character c removed.
Remove(s, c) == SelectSeq(s, LAMBDA x : x # c)

\* str.strip(): leading and trailing whitespace removed.
RECURSIVE LStrip(_)
LStrip(s) ==
    IF s # <<>> /\ s[1] \in Whitespace THEN LStrip(Tail(s)) ELSE s

RECURSIVE RStrip(_)
RStrip(s) ==
    IF s # <<>> /\ s[Len(s)] \in Whitespace
    THEN RStrip(SubSeq(s, 1, Len(s) - 1)) ELSE s

Strip(s) == RStrip(LStrip(s))

\* The index of the first occurrence of a character of cs in s, 0 if none.
FirstIndex(s, cs) ==
    IF \E i \in 1..Len(s) : s[i] \in cs
    THEN CHOOSE i \in 1..Len(s) :
             s[i] \in cs /\ \A j \in 1..(i - 1) : s[j] \notin cs
    ELSE 0

\* s split at every occurrence of the character c: the piece before the
\* first occurrence (at i) and the split of what follows it.
RECURSIVE Split(_, _)
SplitAt(s, c, i) ==
    IF i = 0 THEN <<s>>
    ELSE <<SubSeq(s, 1, i - 1)>> \o Split(SubSeq(s, i + 1, Len(s)), c)

Split(s, c) == SplitAt(s, c, FirstIndex(s, {c}))

----------------------------------------------------------------------------
(* Exceptions and results.  An exception is its class, the literal parts   *)
(* of its message from the outermost wrapper inwards, and the string the   *)
(* message embeds at its end (None when it embeds none).  A result is ok   *)
(* with a value, or not ok with the exception raised.                      *)

NoError == [type |-> "none", msg |-> <<>>, arg |-> None]

Raise(type, msg, arg) == [type |-> type, msg |-> msg, arg |-> arg]

\* Wrap that raises the class of the exception it caught.
WrapKeepingType(type, prefix, e) ==
    [type |-> e.type, msg |-> <<prefix>> \o e.msg, arg |-> e.arg]

\* raise Cls(prefix + str(e)) for a caught exception e.
Wrap(type, prefix, e) ==
    [type |-> type, msg |-> <<prefix>> \o e.msg, arg |-> e.arg]

----------------------------------------------------------------------------
(* datetime.strptime and strftime, as _standardize_date uses them.         *)

\* %Y: exactly four digits.
ReY(p) == Len(p) = 4 /\ IsDigits(p)

\* %m: 1[0-2] | 0[1-9] | [1-9].
Rem(p) ==
    \/ Len(p) = 2 /\ p[1] = "1" /\ p[2] \in {"0", "1", "2"}
    \/ Len(p) = 2 /\ p[1] = "0" /\ p[2] \in NonZeroDigits
    \/ Len(p) = 1 /\ p[1] \in NonZeroDigits

\* %d: 3[01] | [12]\d | 0[1-9] | [1-9] | " "[1-9].
Red(p) ==
    \/ Len(p) = 2 /\ p[1] = "3" /\ p[2] \in {"0", "1"}
    \/ Len(p) = 2 /\ p[1] \in {"1", "2"} /\ p[2] \in Digits
    \/ Len(p) = 2 /\ p[1] = "0" /\ p[2] \in NonZeroDigits
    \/ Len(p) = 1 /\ p[1] \in NonZeroDigits
    \/ Len(p) = 2 /\ p[1] = " " /\ p[2] \in NonZeroDigits

IsLeap(y) == y % 4 = 0 /\ (y % 100 # 0 \/ y % 400 = 0)

DaysInMonth(y, m) ==
    IF m = 2 THEN (IF IsLeap(y) THEN 29 ELSE 28)
    ELSE IF m \in {4, 6, 9, 11} THEN 30 ELSE 31

\* The four formats of _standardize_date, in the order of its tuple.  A
\* format is its separator and the order of its three directives.
FORMATS ==
    << [sep |-> "-", dirs |-> <<"Y", "m", "d">>],
       [sep |-> "/", dirs |-> <<"m", "d", "Y">>],
       [sep |-> "/", dirs |-> <<"d", "m", "Y">>],
       [sep |-> "/", dirs |-> <<"Y", "m", "d">>] >>

NoDate == [ok |-> FALSE, y |-> 0, m |-> 0, d |-> 0]

\* The date of the fields y, m, d: a date of the proleptic Gregorian
\* calendar with year >= 1 (datetime.MINYEAR), or a ValueError.
MakeDate(y, m, d) ==
    IF y >= 1 /\ d <= DaysInMonth(y, m)
    THEN [ok |-> TRUE, y |-> y, m |-> m, d |-> d]
    ELSE NoDate

\* The pieces of a string matched against the directives that have the
\* year at position iy, the month at im and the day at id.
MatchPieces(ps, iy, im, id) ==
    IF Len(ps) = 3 /\ ReY(ps[iy]) /\ Rem(ps[im]) /\ Red(ps[id])
    THEN MakeDate(IntOf(ps[iy]), IntOf(ps[im]), IntOf(Remove(ps[id], " ")))
    ELSE NoDate

Position(dirs, x) == CHOOSE i \in 1..3 : dirs[i] = x

\* datetime.strptime(s, fmt): the whole of s must match the format's
\* regular expression.  No directive matches a separator, so s matches
\* iff its three pieces between the separators each match their directive.
strptime(s, fmt) ==
    MatchPieces(Split(s, fmt.sep), Position(fmt.dirs, "Y"),
                Position(fmt.dirs, "m"), Position(fmt.dirs, "d"))

\* strftime('%Y-%m-%d').  %m and %d are two digits; %Y is the C library's
\* rendering of the year: glibc does not pad it, other libraries pad it to
\* four digits, so padsYear is the platform's choice.
strftime(dt, padsYear) ==
    ZeroPad(StrOfNat(dt.y), IF padsYear THEN 4 ELSE 1)
        \o <<"-">> \o ZeroPad(StrOfNat(dt.m), 2)
        \o <<"-">> \o ZeroPad(StrOfNat(dt.d), 2)

\* What strptime makes of s under each format, in the order of FORMATS.
TryFormats(s) == [i \in 1..Len(FORMATS) |-> strptime(s, FORMATS[i])]

\* The loop over the formats: the rendering of the first that parsed, the
\* ValueError of the raise after the loop if none did.
FirstParsed(date_str, parsed, padsYear) ==
    IF \E i \in DOMAIN parsed : parsed[i].ok
    THEN [ok |-> TRUE,
          val |-> strftime(parsed[CHOOSE i \in DOMAIN parsed :
                                      /\ parsed[i].ok
                                      /\ \A j \in 1..(i - 1) : ~parsed[j].ok],
                           padsYear),
          err |-> NoError]
    ELSE [ok |-> FALSE, val |-> <<>>,
          err |-> Raise("ValueError",
                        <<"Date standardization error: ",
                          "Unable to parse date: ">>,
                        date_str)]

\* _standardize_date(date_str).  strptime(None, fmt) raises TypeError, which
\* the inner except ValueError lets through to the outer except Exception.
_standardize_date(date_str, padsYear) ==
    IF date_str = None
    THEN [ok |-> FALSE, val |-> <<>>,
          err |-> Raise("ValueError",
                        <<"Date standardization error: ",
                          "strptime() argument 1 must be str, not None">>,
                        None)]
    ELSE FirstParsed(date_str, TryFormats(date_str), padsYear)

----------------------------------------------------------------------------
(* float(str) and str(float), as _standardize_amount and csv.writer use    *)
(* them.  A finite float is the decimal number (-1)^neg * mant * 10^exp    *)
(* with mant free of trailing zeros; this is exact for numerals of at most *)
(* 15 significant digits in the double range, where float() is correctly   *)
(* rounded and repr() prints the shortest numeral that reads back.         *)

FloatNum(neg, mant, exp) == [k |-> "num", neg |-> neg, mant |-> mant, exp |-> exp]

FloatInf(neg) == [k |-> "inf", neg |-> neg, mant |-> 0, exp |-> 0]

FloatNan == [k |-> "nan", neg |-> FALSE, mant |-> 0, exp |-> 0]

NoFloat == [k |-> "none", neg |-> FALSE, mant |-> 0, exp |-> 0]

\* The canonical form: trailing zeros of the mantissa moved to the exponent.
RECURSIVE Normalize(_, _, _)
Normalize(neg, mant, exp) ==
    IF mant = 0 THEN FloatNum(neg, 0, 0)
    ELSE IF mant % 10 = 0 THEN Normalize(neg, mant \div 10, exp + 1)
    ELSE FloatNum(neg, mant, exp)

\* Python's == on floats: nan equals nothing, -0.0 equals 0.0.
FloatEq(a, b) ==
    /\ a.k # "nan" /\ b.k # "nan"
    /\ \/ a = b
       \/ a.k = "num" /\ b.k = "num" /\ a.mant = 0 /\ b.mant = 0

Lower(c) ==
    CASE c = "A" -> "a" [] c = "E" -> "e" [] c = "F" -> "f" [] c = "I" -> "i"
      [] c = "N" -> "n" [] c = "T" -> "t" [] c = "Y" -> "y" [] OTHER -> c

LowerStr(s) == [i \in 1..Len(s) |-> Lower(s[i])]

\* digitpart ::= digit (["_"] digit)*
DigitPart(p) ==
    /\ p # <<>>
    /\ \A i \in 1..Len(p) : p[i] \in Digits \cup {"_"}
    /\ p[1] \in Digits /\ p[Len(p)] \in Digits
    /\ \A i \in 1..(Len(p) - 1) : ~(p[i] = "_" /\ p[i + 1] = "_")

HasSign(p) == p # <<>> /\ p[1] \in {"+", "-"}

Unsigned(p) == IF HasSign(p) THEN Tail(p) ELSE p

IsNeg(p) == p # <<>> /\ p[1] = "-"

\* The number of the integer digits ip, the fraction digits fp and the
\* exponent es, once their underscores are removed.
Number(neg, ip, fd, e) == Normalize(neg, IntOf(ip \o fd), e - Len(fd))

Exponent(es) ==
    IF IsNeg(es) THEN 0 - IntOf(Remove(Unsigned(es), "_"))
    ELSE IntOf(Remove(Unsigned(es), "_"))

\* floatnumber with the point at di of the mantissa ms (0 if it has none)
\* and the exponent es after the exponent marker at ei (0 if it has none).
FloatNumber(neg, ms, di, ei, es) ==
    IF /\ ei = 0 \/ DigitPart(Unsigned(es))
       /\ IF di = 0 THEN DigitPart(ms)
          ELSE /\ di = 1 \/ DigitPart(SubSeq(ms, 1, di - 1))
               /\ di = Len(ms) \/ DigitPart(SubSeq(ms, di + 1, Len(ms)))
               /\ Len(ms) > 1
    THEN [ok |-> TRUE,
          val |-> Number(neg,
                         Remove(SubSeq(ms, 1, IF di = 0 THEN Len(ms) ELSE di - 1), "_"),
                         Remove(SubSeq(ms, IF di = 0 THEN Len(ms) + 1 ELSE di + 1,
                                       Len(ms)), "_"),
                         Exponent(es))]
    ELSE [ok |-> FALSE, val |-> NoFloat]

Mantissa(r, ei) == IF ei = 0 THEN r ELSE SubSeq(r, 1, ei - 1)

\* The unsigned part r of the literal, with its exponent marker at ei.
FloatBody(neg, r, ei) ==
    IF LowerStr(r) \in {<<"i", "n", "f">>,
                        <<"i", "n", "f", "i", "n", "i", "t", "y">>}
    THEN [ok |-> TRUE, val |-> FloatInf(neg)]
    ELSE IF LowerStr(r) = <<"n", "a", "n">>
    THEN [ok |-> TRUE, val |-> FloatNan]
    ELSE FloatNumber(neg, Mantissa(r, ei),
                     FirstIndex(Mantissa(r, ei), {"."}), ei,
                     IF ei = 0 THEN <<>> ELSE SubSeq(r, ei + 1, Len(r)))

FloatLiteral(t) ==
    FloatBody(IsNeg(t), Unsigned(t), FirstIndex(Unsigned(t), {"e", "E"}))

\* float(s): surrounding whitespace is ignored; then an optional sign and
\* either inf, infinity or nan in any case, or
\*   digitpart ["." [digitpart]] [exponent] | "." digitpart [exponent]
\* with exponent ::= ("e" | "E") ["+" | "-"] digitpart.
float(s) == FloatLiteral(Strip(s))

Zeros(n) == [i \in 1..n |-> "0"]

\* The digits D of a mantissa with the decimal point after the first decpt
\* of them, in exponent notation (the exponent signed, two digits at least).
Scientific(D, e) ==
    <<D[1]>> \o (IF Len(D) > 1 THEN <<".">> \o Tail(D) ELSE <<>>)
        \o <<"e", IF e < 0 THEN "-" ELSE "+">>
        \o ZeroPad(StrOfNat(IF e < 0 THEN 0 - e ELSE e), 2)

\* The same in positional notation, with one digit at least on each side
\* of the point.
Positional(D, decpt) ==
    IF decpt <= 0 THEN <<"0", ".">> \o Zeros(0 - decpt) \o D
    ELSE IF decpt < Len(D)
    THEN SubSeq(D, 1, decpt) \o <<".">> \o SubSeq(D, decpt + 1, Len(D))
    ELSE D \o Zeros(decpt - Len(D)) \o <<".", "0">>

\* repr of a finite non-zero float: positional notation when the decimal
\* point falls within -4 < decpt <= 16, exponent notation otherwise.
Repr(D, decpt) ==
    IF decpt > 16 \/ decpt < -3 THEN Scientific(D, decpt - 1)
    ELSE Positional(D, decpt)

\* str(f), which is repr(f).
FloatStr(f) ==
    (IF f.neg /\ f.k # "nan" THEN <<"-">> ELSE <<>>)
        \o CASE f.k = "nan" -> <<"n", "a", "n">>
             [] f.k = "inf" -> <<"i", "n", "f">>
             [] f.k = "num" /\ f.mant = 0 -> <<"0", ".", "0">>
             [] OTHER -> Repr(StrOfNat(f.mant), Len(StrOfNat(f.mant)) + f.exp)

\* The string _standardize_amount hands to float(): the three currency
\* symbols removed, the result stripped, then the commas removed.
CleanAmount(amount_str) ==
    Remove(Strip(Remove(Remove(Remove(amount_str, "$"), "£"), "€")), ",")

\* The try block's result for the cleaned string: float's value, or the
\* ValueError made of float's ValueError, which quotes the cleaned string.
AmountOf(cleaned, r) ==
    IF r.ok THEN [ok |-> TRUE, val |-> r.val, err |-> NoError]
    ELSE [ok |-> FALSE, val |-> NoFloat,
          err |-> Raise("ValueError",
                        <<"Amount standardization error: ",
                          "could not convert string to float: ">>,
                        cleaned)]

\* _standardize_amount(amount_str).  None has no replace(): the
\* AttributeError is caught by the except Exception like float's ValueError.
_standardize_amount(amount_str) ==
    IF amount_str = None
    THEN [ok |-> FALSE, val |-> NoFloat,
          err |-> Raise("ValueError",
                        <<"Amount standardization error: ",
                          "'NoneType' object has no attribute 'replace'">>,
                        None)]
    ELSE AmountOf(CleanAmount(amount_str), float(CleanAmount(amount_str)))

----------------------------------------------------------------------------
(* The csv module, as load_transactions and write_standardized_csv use it: *)
(* the default (excel) dialect, delimiter ",", quote character '"',        *)
(* doubled quotes, minimal quoting, line terminator "\r\n".                *)

Quote == "\""

\* QUOTE_MINIMAL: a field is quoted when it holds the delimiter, the quote
\* character or a character of the line terminator.
NeedsQuote(f) == \E i \in 1..Len(f) : f[i] \in {",", Quote, "\r", "\n"}

RECURSIVE DoubleQuotes(_)
DoubleQuotes(f) ==
    IF f = <<>> THEN <<>>
    ELSE (IF f[1] = Quote THEN <<Quote, Quote>> ELSE <<f[1]>>)
             \o DoubleQuotes(Tail(f))

CsvField(f) ==
    IF NeedsQuote(f) THEN <<Quote>> \o DoubleQuotes(f) \o <<Quote>> ELSE f

RECURSIVE JoinFields(_)
JoinFields(fs) ==
    IF fs = <<>> THEN <<>>
    ELSE IF Len(fs) = 1 THEN CsvField(fs[1])
    ELSE CsvField(fs[1]) \o <<",">> \o JoinFields(Tail(fs))

\* writer.writerow(fields): the joined fields and the line terminator.
CsvLine(fs, terminator) == JoinFields(fs) \o terminator

\* The characters of t at the indices keep, "\r" read as "\n".
Translate(t, keep) ==
    [j \in 1..Len(keep) |-> IF t[keep[j]] = "\r" THEN "\n" ELSE t[keep[j]]]

\* open(path, 'r'): universal newlines, "\r\n" and "\r" read as "\n".
UniversalNewlines(t) ==
    Translate(t, SelectSeq([i \in 1..Len(t) |-> i],
                           LAMBDA i : ~(t[i] = "\n" /\ i > 1 /\ t[i - 1] = "\r")))

\* The index of the first character of cs in t at or after i; Len(t) + 1
\* if there is none.
FirstIndexFrom(t, i, cs) ==
    IF \E j \in i..Len(t) : t[j] \in cs
    THEN CHOOSE j \in i..Len(t) :
             t[j] \in cs /\ \A h \in i..(j - 1) : t[h] \notin cs
    ELSE Len(t) + 1

\* The parser inside a quoted field (IN_QUOTED_FIELD) at i, with acc read
\* of the field so far and the next quote at q: up to that quote
\* everything belongs to the field; after it (QUOTE_IN_QUOTED_FIELD) a
\* second quote is a quote of the field, a delimiter or a line end ends the
\* field, and any other character goes on with the field unquoted
\* (IN_FIELD), up to the delimiter or line end at e.  The result is the
\* field and the index of the delimiter or line end that ends it.
RECURSIVE QuotedField(_, _, _)
AfterQuote(t, q, got, e) ==
    IF q > Len(t) THEN [field |-> got, end |-> q]
    ELSE IF q + 1 <= Len(t) /\ t[q + 1] = Quote
    THEN QuotedField(t, q + 2, Append(got, Quote))
    ELSE [field |-> got \o SubSeq(t, q + 1, e - 1), end |-> e]

ToQuote(t, i, acc, q) ==
    AfterQuote(t, q, acc \o SubSeq(t, i, q - 1),
               FirstIndexFrom(t, q + 1, {",", "\n"}))

QuotedField(t, i, acc) == ToQuote(t, i, acc, FirstIndexFrom(t, i, {Quote}))

\* An unquoted field from i to the delimiter or line end at e.
PlainField(t, i, e) == [field |-> SubSeq(t, i, e - 1), end |-> e]

\* The field that starts at i (START_FIELD), quoted or not.
Field(t, i) ==
    IF i <= Len(t) /\ t[i] = Quote THEN QuotedField(t, i + 1, <<>>)
    ELSE PlainField(t, i, FirstIndexFrom(t, i, {",", "\n"}))

\* csv.reader over the lines of t from i on, row being the fields read of
\* the current row: a blank line is the empty row, a quoted field may span
\* lines, and the end of the text ends the row being read.
RECURSIVE CsvScan(_, _, _, _)
AfterField(t, row, rows, f) ==
    IF f.end <= Len(t) /\ t[f.end] = ","
    THEN CsvScan(t, f.end + 1, Append(row, f.field), rows)
    ELSE CsvScan(t, f.end + 1, <<>>, Append(rows, Append(row, f.field)))

CsvScan(t, i, row, rows) ==
    IF i > Len(t) /\ row = <<>> THEN rows
    ELSE IF row = <<>> /\ t[i] = "\n"
    THEN CsvScan(t, i + 1, <<>>, Append(rows, <<>>))
    ELSE AfterField(t, row, rows, Field(t, i))

CsvReader(t) == CsvScan(t, 1, <<>>, <<>>)

Range(f) == {f[i] : i \in DOMAIN f}

\* The dict csv.DictReader makes of a row: every field name is a key, the
\* last column of a repeated name wins, and a name whose column the row is
\* too short to hold maps to None (restval).
DictRow(fieldnames, row) ==
    [n \in Range(fieldnames) |->
        LET i == CHOOSE j \in DOMAIN fieldnames :
                     /\ fieldnames[j] = n
                     /\ \A h \in DOMAIN fieldnames : fieldnames[h] = n => h <= j
        IN  IF i <= Len(row) THEN row[i] ELSE None]

\* The dicts of the rows data under the field names.
DictRows(fieldnames, data) ==
    [i \in 1..Len(data) |-> DictRow(fieldnames, data[i])]

\* csv.DictReader over the rows of a csv.reader: the first row read names
\* the fields; of the rows after it the empty ones (blank lines) are
\* skipped.
DictsOf(rows) ==
    IF rows = <<>> THEN <<>>
    ELSE DictRows(rows[1], SelectSeq(Tail(rows), LAMBDA r : r # <<>>))

\* csv.DictReader(csvfile)
DictReader(t) == DictsOf(CsvReader(t))

\* row.get(key, default)
RowGet(row, key, default) == IF key \in DOMAIN row THEN row[key] ELSE default

----------------------------------------------------------------------------
(* TransactionProcessor.                                                   *)

\* A path at which no file exists.
FileMissing == <<"<missing>">>

REQUIRED_KEYS ==
    {"date_field", "description_field", "amount_field", "category_field"}

\* What a config path holds: no file, text that is not JSON, or a JSON
\* value.  An object is the function d from its keys to their values; an
\* array is the set of its string items; a string is the set of the key
\* names that occur in it as substrings.
CfgMissing == [k |-> "missing", d |-> <<>>, items |-> {}]

CfgInvalid == [k |-> "invalid", d |-> <<>>, items |-> {}]

JsonDict(d) == [k |-> "dict", d |-> d, items |-> {}]

JsonList(items) == [k |-> "list", d |-> <<>>, items |-> items]

JsonStr(items) == [k |-> "str", d |-> <<>>, items |-> items]

JsonInt == [k |-> "int", d |-> <<>>, items |-> {}]

JsonNull == [k |-> "null", d |-> <<>>, items |-> {}]

\* key in config, for the values that support it.
In(key, cfg) ==
    IF cfg.k = "dict" THEN key \in DOMAIN cfg.d ELSE key \in cfg.items

\* _load_config(): the value json.load returns is returned as it is when
\* every required key is `in` it.  `in` on a number or on null raises
\* TypeError, which neither except clause catches.
_load_config(cfg) ==
    CASE cfg.k = "missing" ->
             [ok |-> FALSE, val |-> cfg,
              err |-> Raise("FileNotFoundError",
                            <<"Config file not found: ">>, None)]
      [] cfg.k = "invalid" ->
             [ok |-> FALSE, val |-> cfg,
              err |-> Raise("ValueError",
                            <<"Invalid JSON in config file: ">>, None)]
      [] cfg.k \in {"int", "null"} ->
             [ok |-> FALSE, val |-> cfg,
              err |-> Raise("TypeError",
                            <<"argument of type is not iterable">>, None)]
      [] OTHER ->
             IF \A key \in REQUIRED_KEYS : In(key, cfg)
             THEN [ok |-> TRUE, val |-> cfg, err |-> NoError]
             ELSE [ok |-> FALSE, val |-> cfg,
                   err |-> Raise("ValueError",
                                 <<"Config file missing required field mappings">>,
                                 None)]

NoTransaction ==
    [date |-> <<>>, description |-> <<>>, amount |-> NoFloat, category |-> <<>>]

Failed(e) == [ok |-> FALSE, val |-> NoTransaction, err |-> e]

\* .strip() of a looked-up value: None has no strip().
StripField(v) ==
    IF v = None
    THEN [ok |-> FALSE, val |-> <<>>,
          err |-> Raise("AttributeError",
                        <<"'NoneType' object has no attribute 'strip'">>, None)]
    ELSE [ok |-> TRUE, val |-> Strip(v), err |-> NoError]

\* The defaults of the four row.get calls of load_transactions.
DateDefault == <<>>

DescriptionDefault == <<>>

\* The amount looked up with the default of the other three fields.
AmountDefaultEmpty == <<>>

AmountDefault == <<"0">>

CategoryDefault == <<>>

\* The dict display of load_transactions once its four values are
\* computed, in the order date, description, amount, category: the first
\* exception ends it.
Assemble(date, desc, amt, cat) ==
    IF ~date.ok THEN Failed(date.err)
    ELSE IF ~desc.ok THEN Failed(desc.err)
    ELSE IF ~amt.ok THEN Failed(amt.err)
    ELSE IF ~cat.ok THEN Failed(cat.err)
    ELSE [ok |-> TRUE,
          val |-> [date |-> date.val, description |-> desc.val,
                   amount |-> amt.val, category |-> cat.val],
          err |-> NoError]

\* The transaction load_transactions makes of one row.  Subscripting a
\* header_mapping that is a list or a string with a key raises TypeError.
Transaction(header_mapping, row, padsYear) ==
    IF header_mapping.k # "dict"
    THEN Failed(Raise("TypeError", <<"indices must be integers">>, None))
    ELSE Assemble(
             _standardize_date(
                 RowGet(row, header_mapping.d["date_field"], DateDefault),
                 padsYear),
             StripField(
                 RowGet(row, header_mapping.d["description_field"],
                        DescriptionDefault)),
             _standardize_amount(
                 RowGet(row, header_mapping.d["amount_field"], AmountDefault)),
             StripField(
                 RowGet(row, header_mapping.d["category_field"],
                        CategoryDefault)))

\* The for loop of load_transactions from row i on: each transaction t is
\* appended to self.transactions as soon as it is made; an exception
\* leaves the loop with what was appended before it, and the except
\* Exception clause raises it again as an Exception.
RECURSIVE LoadRows(_, _, _, _, _)
\* LoadRow with the transaction inserted at the front of the list.
LoadRowPrepending(header_mapping, rows, i, transactions, padsYear, t) ==
    IF t.ok
    THEN LoadRows(header_mapping, rows, i + 1, <<t.val>> \o transactions,
                  padsYear)
    ELSE [transactions |-> transactions,
          err |-> Wrap("Exception", "Error loading transactions: ", t.err)]

LoadRow(header_mapping, rows, i, transactions, padsYear, t) ==
    IF t.ok
    THEN LoadRows(header_mapping, rows, i + 1, Append(transactions, t.val),
                  padsYear)
    ELSE [transactions |-> transactions,
          err |-> Wrap("Exception", "Error loading transactions: ", t.err)]

LoadRows(header_mapping, rows, i, transactions, padsYear) ==
    IF i > Len(rows) THEN [transactions |-> transactions, err |-> NoError]
    ELSE LoadRow(header_mapping, rows, i, transactions, padsYear,
                 Transaction(header_mapping, rows[i], padsYear))

\* load_transactions that empties self.transactions before it reads.
load_transactions_resetting(header_mapping, transactions, file, padsYear) ==
    IF file = FileMissing
    THEN [transactions |-> transactions,
          err |-> Raise("FileNotFoundError", <<"CSV file not found: ">>, None)]
    ELSE LoadRows(header_mapping, DictReader(UniversalNewlines(file)), 1,
                  <<>>, padsYear)

\* load_transactions() of a processor with the given header_mapping and
\* transactions, on what its file_path holds: the transactions it leaves
\* in self.transactions and the exception it raises (NoError if none).
load_transactions(header_mapping, transactions, file, padsYear) ==
    IF file = FileMissing
    THEN [transactions |-> transactions,
          err |-> Raise("FileNotFoundError", <<"CSV file not found: ">>, None)]
    ELSE LoadRows(header_mapping, DictReader(UniversalNewlines(file)), 1,
                  transactions, padsYear)

FIELDNAMES ==
    << <<"d", "a", "t", "e">>,
       <<"d", "e", "s", "c", "r", "i", "p", "t", "i", "o", "n">>,
       <<"a", "m", "o", "u", "n", "t">>,
       <<"c", "a", "t", "e", "g", "o", "r", "y">> >>

CRLF == <<"\r", "\n">>

\* The line writer.writerows writes for one transaction, the amount
\* written as str() of the float.
TransactionLine(t) ==
    CsvLine(<<t.date, t.description, FloatStr(t.amount), t.category>>, CRLF)

\* writer.writerows(self.transactions)
RECURSIVE WriteRows(_)
WriteRows(transactions) ==
    IF transactions = <<>> THEN <<>>
    ELSE TransactionLine(transactions[1]) \o WriteRows(Tail(transactions))

\* write_standardized_csv(output_path): the text the output path holds
\* afterwards and the exception raised.  newline='' writes the text as it is.
write_standardized_csv(transactions, old) ==
    IF transactions = <<>>
    THEN [file |-> old,
          err |-> Raise("ValueError",
                        <<"No transactions loaded. Call load_transactions() first.">>,
                        None)]
    ELSE [file |-> CsvLine(FIELDNAMES, CRLF) \o WriteRows(transactions),
          err |-> NoError]

----------------------------------------------------------------------------
(* The inputs the pure functions are checked on.                           *)

\* The pieces date strings are built from: years (one below 1000, one
\* leap, the year 0 that no date has), months, days, and pieces that are
\* neither.
DatePieces ==
    { <<"2", "0", "2", "3">>, <<"2", "0", "2", "4">>, <<"0", "9", "9", "9">>,
      <<"0", "0", "0", "0">>, <<"2", "3">>,
      <<"0", "3">>, <<"0", "4">>, <<"3">>, <<"1", "2">>, <<"1", "3">>,
      <<"0", "2">>, <<"2", "9">>, <<"3", "0">>, <<"3", "1">>,
      <<"0", "0">>, <<" ", "4">>, <<"x">> }

DateSeps == {"-", "/"}

DateStrs ==
    { a \o <<s1>> \o b \o <<s2>> \o c :
        a \in DatePieces, b \in DatePieces, c \in DatePieces,
        s1 \in DateSeps, s2 \in DateSeps }
    \cup { <<>>, None,
           <<"n", "o", "t", "-", "a", "-", "d", "a", "t", "e">>,
           <<"2", "0", "2", "3", "-", "0", "3", "-", "0", "4", " ">>,
           <<"2", "0", "2", "3", "-", "0", "3", "-", "0", "4", "-">>,
           <<"2", "0", "2", "3", "0", "3", "0", "4">> }

AmountPrefixes ==
    { <<>>, <<"$">>, <<"£">>, <<"€">>, <<" ">>, <<"-">>, <<"+">>,
      <<"$", "-">>, <<"-", "$">>, <<"$", " ">>, <<",">> }

AmountBodies ==
    { <<"1", ",", "2", "3", "4", ".", "5", "6">>, <<"1", "2", ".", "0", "0">>,
      <<"4", ".", "5", "0">>, <<"0">>, <<"0", ".", "0", "1">>, <<"5">>,
      <<".", "5">>, <<"5", ".">>, <<".">>, <<>>,
      <<"1", ",", ",", "2">>, <<"1", " ", "2">>, <<"1", "_", "0">>,
      <<"1", "_", "_", "0">>, <<"_", "1">>,
      <<"1", "e", "3">>, <<"1", "E", "-", "2">>, <<"1", "e">>, <<"e", "3">>,
      <<"1", ".", "5", "e", "1", "7">>, <<"1", "e", "-", "5">>,
      <<"n", "a", "n">>, <<"N", "a", "N">>, <<"i", "n", "f">>,
      <<"I", "n", "f", "i", "n", "i", "t", "y">>, <<"i", "n", "f", "i">>,
      <<"a", "b", "c">>, <<"5", "-">>, <<"1", ".", "2", ".", "3">> }

AmountSuffixes == { <<>>, <<" ">>, <<"$">>, <<",">>, <<"\n">> }

AmountStrs ==
    { a \o b \o c :
        a \in AmountPrefixes, b \in AmountBodies, c \in AmountSuffixes }
    \cup { None }

\* The columns of the input files, as the example of the documentation
\* names them, and the descriptor that maps the four fields to them.
COLUMNS ==
    << <<"D", "a", "t", "e">>, <<"D", "e", "s", "c">>,
       <<"A", "m", "t">>, <<"C", "a", "t">> >>

MainConfig ==
    JsonDict([key \in REQUIRED_KEYS |->
                 CASE key = "date_field" -> COLUMNS[1]
                   [] key = "description_field" -> COLUMNS[2]
                   [] key = "amount_field" -> COLUMNS[3]
                   [] key = "category_field" -> COLUMNS[4]])

\* The identity mapping, under which a written file is read back.
IdentityConfig ==
    JsonDict([key \in REQUIRED_KEYS |->
                 CASE key = "date_field" -> FIELDNAMES[1]
                   [] key = "description_field" -> FIELDNAMES[2]
                   [] key = "amount_field" -> FIELDNAMES[3]
                   [] key = "category_field" -> FIELDNAMES[4]])

\* The rows input files are made of: date, description, amount, category.
\* The last is a row too short to hold an amount and a category.
RowCoffee ==
    << <<"0", "1", "/", "1", "5", "/", "2", "0", "2", "3">>,
       <<"C", "o", "f", "f", "e", "e">>, <<"$", "4", ".", "5", "0">>,
       <<"F", "o", "o", "d">> >>

RowQuoted ==
    << <<"1", "3", "/", "0", "4", "/", "2", "0", "2", "3">>,
       <<" ", "a", ",", Quote, "b", "\n", "c", " ">>,
       <<"$", "1", ",", "2", "3", "4", ".", "5", "6">>, <<>> >>

RowOldYear ==
    << <<"0", "9", "9", "9", "-", "0", "1", "-", "0", "1">>,
       <<"x">>, <<"€", "-", "1", "2", ".", "0", "0">>, <<" ", "c">> >>

RowNan ==
    << <<"2", "0", "2", "3", "/", "0", "3", "/", "0", "4">>,
       <<>>, <<"n", "a", "n">>, <<"c">> >>

RowBadDate ==
    << <<"n", "o", "t", "-", "a", "-", "d", "a", "t", "e">>,
       <<"d">>, <<"1">>, <<"c">> >>

RowBadAmount ==
    << <<"0", "3", "/", "0", "4", "/", "2", "0", "2", "3">>,
       <<"d">>, <<"$", "a", "b", "c">>, <<"c">> >>

RowShort ==
    << <<"2", "0", "2", "3", "-", "0", "3", "-", "0", "4">>, <<"d">> >>

RowSet ==
    {RowCoffee, RowQuoted, RowOldYear, RowNan, RowBadDate, RowBadAmount, RowShort}

MaxRows == 2

MaxLoads == 2

RECURSIVE SeqsUpTo(_, _)
SeqsUpTo(S, n) ==
    IF n = 0 THEN {<<>>}
    ELSE SeqsUpTo(S, n - 1)
             \cup {Append(q, e) : q \in {r \in SeqsUpTo(S, n - 1) : Len(r) = n - 1},
                                  e \in S}

\* The fields of a row at the indices keep.
Fields(row, keep) == [j \in 1..Len(keep) |-> row[keep[j]]]

\* The fields of a row in the columns cols (ascending indices) that the
\* row is long enough to hold.
Project(row, cols) ==
    Fields(row, SelectSeq([i \in 1..Len(row) |-> i], LAMBDA i : i \in cols))

RECURSIVE Lines(_, _)
Lines(rows, cols) ==
    IF rows = <<>> THEN <<>>
    ELSE CsvLine(Project(rows[1], cols), <<"\n">>) \o Lines(Tail(rows), cols)

\* The text of an input file with the columns cols and the given rows.
InputText(cols, rows) == Lines(<<COLUMNS>> \o rows, cols)

AllColumns == 1..Len(COLUMNS)

Inputs ==
    {FileMissing, <<>>}
        \cup {InputText(AllColumns, rows) : rows \in SeqsUpTo(RowSet, MaxRows)}

Configs == {MainConfig, CfgMissing, JsonList(REQUIRED_KEYS)}

----------------------------------------------------------------------------
(* The state: what the platform and the paths hold, the processors (A on   *)
(* the input file and the config file, B on the output file of A and the   *)
(* identity mapping), and the last call made and what it raised.           *)

VARIABLES
    padsYear,   \* whether the C library's strftime pads %Y to four digits
    config,     \* what the config path of A holds
    input,      \* what the file path of A holds
    output,     \* what the output path of A, the file path of B, holds
    procs,      \* the processors
    last,       \* the last call: its operation, its processor, its exception
    arg,        \* the argument of the function under check
    res,        \* its result, once called
    db          \* the run of db_loader's main

vars == <<padsYear, config, input, output, procs, last, arg, res, db>>

Procs == {"A", "B"}

NoProc ==
    [state |-> "none", header_mapping |-> CfgMissing, transactions |-> <<>>,
     loads |-> 0]

NoCall == [op |-> "none", p |-> "A", err |-> NoError]

NoResult == [called |-> FALSE, ok |-> FALSE, val |-> <<>>, err |-> NoError]

NoDb == [pc |-> "idle"]

ConfigOf(p) == IF p = "A" THEN config ELSE IdentityConfig

FileOf(p) == IF p = "A" THEN input ELSE output

\* get_transactions()
get_transactions(p) == procs[p].transactions

\* TransactionProcessor(file_path, config_path): __init__ sets transactions
\* to the empty list and header_mapping to what _load_config returns (r);
\* when that raises there is no processor.
Constructed(p, r) ==
    /\ procs' = [procs EXCEPT ![p] =
                    IF r.ok
                    THEN [state |-> "ready", header_mapping |-> r.val,
                          transactions |-> <<>>, loads |-> 0]
                    ELSE [NoProc EXCEPT !.state = "failed"]]
    /\ last' = [op |-> "init", p |-> p, err |-> r.err]

Construct(p) ==
    /\ procs[p].state = "none"
    /\ Constructed(p, _load_config(ConfigOf(p)))
    /\ UNCHANGED <<padsYear, config, input, output, arg, res, db>>

\* processor.load_transactions(), r being what it leaves and raises.
Loaded(p, r) ==
    /\ procs' = [procs EXCEPT ![p].transactions = r.transactions,
                              ![p].loads = @ + 1]
    /\ last' = [op |-> "load", p |-> p, err |-> r.err]

LoadTransactions(p) ==
    /\ procs[p].state = "ready"
    /\ procs[p].loads < MaxLoads
    /\ Loaded(p, load_transactions(procs[p].header_mapping,
                                   procs[p].transactions, FileOf(p), padsYear))
    /\ UNCHANGED <<padsYear, config, input, output, arg, res, db>>

\* processor.write_standardized_csv(output_path), r being what it leaves
\* at the path and raises.
Written(p, r) ==
    /\ output' = r.file
    /\ last' = [op |-> "write", p |-> p, err |-> r.err]

WriteStandardizedCsv(p) ==
    /\ procs[p].state = "ready"
    /\ Written(p, write_standardized_csv(procs[p].transactions, output))
    /\ UNCHANGED <<padsYear, config, input, procs, arg, res, db>>

Init ==
    /\ padsYear \in BOOLEAN
    /\ config \in Configs
    /\ input \in Inputs
    /\ output = FileMissing
    /\ procs = [p \in Procs |-> NoProc]
    /\ last = NoCall
    /\ arg = <<>>
    /\ res = NoResult
    /\ db = NoDb

Next ==
    \/ Construct("A")
    \/ LoadTransactions("A")
    \/ WriteStandardizedCsv("A")

Spec == Init /\ [][Next]_vars

----------------------------------------------------------------------------
(* Properties of load_transactions, get_transactions and                   *)
(* write_standardized_csv, under Spec.                                     *)

A == procs["A"]

\* The rows csv.DictReader reads of the input file.
InputRows == IF input = FileMissing THEN <<>>
             ELSE DictReader(UniversalNewlines(input))

\* What one load_transactions of a fresh processor A makes of the input.
LoadedOnce == load_transactions(A.header_mapping, <<>>, input, padsYear)

RECURSIVE Repeat(_, _)
Repeat(q, n) == IF n = 0 THEN <<>> ELSE Repeat(q, n - 1) \o q

AllRowsValid ==
    \A i \in DOMAIN InputRows :
        Transaction(A.header_mapping, InputRows[i], padsYear).ok

\* C1: normalization is all-or-nothing: once load_transactions has raised,
\* get_transactions returns no transaction of the rows before the failing
\* row, and write_standardized_csv writes none of them.
C1_AllOrNothing ==
    (A.state = "ready" /\ input # FileMissing /\ LoadedOnce.err # NoError)
        => /\ get_transactions("A") = <<>>
           /\ output = FileMissing

\* C2: when every row of the input is valid, one load_transactions on a
\* fresh processor yields exactly one transaction per row, in the order of
\* the rows: the i-th transaction is the normalization of the i-th row.
C2_OneTransactionPerRow ==
    (A.state = "ready" /\ A.loads = 1 /\ input # FileMissing /\ AllRowsValid)
        => /\ Len(get_transactions("A")) = Len(InputRows)
           /\ \A i \in DOMAIN InputRows :
                  get_transactions("A")[i]
                      = Transaction(A.header_mapping, InputRows[i], padsYear).val

C2_Witness ==
    /\ A.state = "ready" /\ A.loads = 1 /\ input # FileMissing /\ AllRowsValid
    /\ Len(InputRows) = 2
    /\ get_transactions("A")[1] # get_transactions("A")[2]

\* C10: load_transactions only appends: after n successful calls on an
\* unchanged file of m rows get_transactions returns n * m transactions,
\* the normalized rows of the file repeated n times in order.
C10_LoadsOnlyAppend ==
    (A.state = "ready" /\ input # FileMissing /\ LoadedOnce.err = NoError)
        => /\ Len(get_transactions("A")) = A.loads * Len(InputRows)
           /\ get_transactions("A") = Repeat(LoadedOnce.transactions, A.loads)

C10_Witness ==
    /\ A.state = "ready" /\ input # FileMissing /\ LoadedOnce.err = NoError
    /\ A.loads = 2 /\ Len(InputRows) = 2
    /\ Len(get_transactions("A")) = 4

\* The value load_transactions looks up in a row for a field of the mapping.
Raw(hm, row, key, default) == RowGet(row, hm.d[key], default)

\* Why load_transactions fails on a row, if it does: "date" when the date
\* string matches no format, "amount" when the cleaned amount string is no
\* number, "other" when the mapping cannot be subscripted or a value is None.
RowFailure(hm, row) ==
    IF hm.k # "dict" THEN "other"
    ELSE IF Raw(hm, row, "date_field", DateDefault) = None THEN "other"
    ELSE IF ~_standardize_date(Raw(hm, row, "date_field", DateDefault),
                               padsYear).ok THEN "date"
    ELSE IF Raw(hm, row, "description_field", DescriptionDefault) = None
    THEN "other"
    ELSE IF Raw(hm, row, "amount_field", AmountDefault) = None THEN "other"
    ELSE IF ~_standardize_amount(Raw(hm, row, "amount_field",
                                     AmountDefault)).ok THEN "amount"
    ELSE IF Raw(hm, row, "category_field", CategoryDefault) = None
    THEN "other"
    ELSE "none"

\* The first row of rows on which load_transactions fails, 0 if none.
FirstFailing(hm, rows) ==
    IF \E i \in DOMAIN rows : RowFailure(hm, rows[i]) # "none"
    THEN CHOOSE i \in DOMAIN rows :
             /\ RowFailure(hm, rows[i]) # "none"
             /\ \A j \in 1..(i - 1) : RowFailure(hm, rows[j]) = "none"
    ELSE 0

\* The category of the failure of load_transactions on a file.
FailureOf(hm, file) ==
    IF file = FileMissing THEN "missing"
    ELSE IF FirstFailing(hm, DictReader(UniversalNewlines(file))) = 0
    THEN "none"
    ELSE RowFailure(hm, DictReader(UniversalNewlines(file))
                            [FirstFailing(hm, DictReader(UniversalNewlines(file)))])

FailingRow == InputRows[FirstFailing(A.header_mapping, InputRows)]

LoadRaised == A.state = "ready" /\ last.op = "load" /\ last.err # NoError

\* C6 as stated: each failure category reaches the caller as its own error
\* kind: the class of the exception of a date failure, of an amount
\* failure and of a missing input file differs from the class raised for
\* each other category, and the date and the amount error name the raw
\* string of the row.
C6_OwnErrorKinds ==
    LoadRaised =>
        /\ FailureOf(A.header_mapping, input) \in {"date", "amount", "missing"}
              => \A f \in Inputs :
                     FailureOf(A.header_mapping, f)
                         \in {"date", "amount", "missing"}
                                 \ {FailureOf(A.header_mapping, input)}
                     => load_transactions(A.header_mapping, <<>>, f,
                                          padsYear).err.type # last.err.type
        /\ FailureOf(A.header_mapping, input) = "date"
              => last.err.arg
                     = Raw(A.header_mapping, FailingRow, "date_field", DateDefault)
        /\ FailureOf(A.header_mapping, input) = "amount"
              => last.err.arg
                     = Raw(A.header_mapping, FailingRow, "amount_field",
                           AmountDefault)

\* C6 as amended: a missing input file reaches the caller as
\* FileNotFoundError; a date failure and an amount failure both reach it as
\* the one class Exception, told apart by the message only, the date
\* message ending with the raw date string of the row and the amount
\* message with the cleaned amount string (currency symbols and commas
\* removed).
C6_ErrorKinds ==
    LoadRaised =>
        /\ FailureOf(A.header_mapping, input) = "missing"
              => last.err.type = "FileNotFoundError"
        /\ FailureOf(A.header_mapping, input) = "date"
              => last.err
                     = [type |-> "Exception",
                        msg |-> <<"Error loading transactions: ",
                                  "Date standardization error: ",
                                  "Unable to parse date: ">>,
                        arg |-> Raw(A.header_mapping, FailingRow, "date_field",
                                    DateDefault)]
        /\ FailureOf(A.header_mapping, input) = "amount"
              => last.err
                     = [type |-> "Exception",
                        msg |-> <<"Error loading transactions: ",
                                  "Amount standardization error: ",
                                  "could not convert string to float: ">>,
                        arg |-> Remove(Strip(Remove(Remove(Remove(
                                    Raw(A.header_mapping, FailingRow,
                                        "amount_field", AmountDefault),
                                    "$"), "£"), "€")), ",")]

C6_Witness ==
    /\ LoadRaised
    /\ FailureOf(A.header_mapping, input) = "amount"
    /\ last.err.arg # Raw(A.header_mapping, FailingRow, "amount_field",
                          AmountDefault)
    /\ Len(get_transactions("A")) > 0

----------------------------------------------------------------------------
(* _standardize_date and _standardize_amount called on their own.          *)

Called(r) == [called |-> TRUE, ok |-> r.ok, val |-> r.val, err |-> r.err]

\* processor._standardize_date(arg)
StandardizeDate ==
    /\ ~res.called
    /\ res' = Called(_standardize_date(arg, padsYear))
    /\ UNCHANGED <<padsYear, config, input, output, procs, last, arg, db>>

InitDate ==
    /\ padsYear \in BOOLEAN
    /\ config = MainConfig
    /\ input = FileMissing
    /\ output = FileMissing
    /\ procs = [p \in Procs |-> NoProc]
    /\ last = NoCall
    /\ arg \in DateStrs
    /\ res = NoResult
    /\ db = NoDb

NextDate == StandardizeDate

SpecDate == InitDate /\ [][NextDate]_vars

\* processor._standardize_amount(arg)
StandardizeAmount ==
    /\ ~res.called
    /\ res' = Called(_standardize_amount(arg))
    /\ UNCHANGED <<padsYear, config, input, output, procs, last, arg, db>>

InitAmount ==
    /\ padsYear \in BOOLEAN
    /\ config = MainConfig
    /\ input = FileMissing
    /\ output = FileMissing
    /\ procs = [p \in Procs |-> NoProc]
    /\ last = NoCall
    /\ arg \in AmountStrs
    /\ res = NoResult
    /\ db = NoDb

NextAmount == StandardizeAmount

SpecAmount == InitAmount /\ [][NextAmount]_vars

\* Whether datetime.strptime parses the argument in format i of the four.
Parses(i) == arg # None /\ strptime(arg, FORMATS[i]).ok

\* The YYYY-MM-DD rendering of the argument read in format i: the year
\* in four digits, the month and the day in two.
Rendering(i) ==
    ZeroPad(StrOfNat(strptime(arg, FORMATS[i]).y), 4)
        \o <<"-">> \o ZeroPad(StrOfNat(strptime(arg, FORMATS[i]).m), 2)
        \o <<"-">> \o ZeroPad(StrOfNat(strptime(arg, FORMATS[i]).d), 2)

\* C3: date standardization tries year-month-day with dashes,
\* month/day/year, day/month/year, year/month/day with slashes in that
\* order and returns the YYYY-MM-DD rendering of the first format that
\* parses; a string that both month/day/year and day/month/year parse is
\* read as month/day/year; a string that none parses fails.
C3_FirstFormatWins ==
    res.called =>
        IF \E i \in 1..4 : Parses(i)
        THEN /\ res.ok
             /\ res.val = Rendering(CHOOSE i \in 1..4 :
                                        /\ Parses(i)
                                        /\ \A j \in 1..(i - 1) : ~Parses(j))
             /\ Len(res.val) = 10
             /\ (Parses(2) /\ Parses(3)) => res.val = Rendering(2)
        ELSE ~res.ok

\* The remainder of the argument once every currency symbol and every
\* comma is removed and the surrounding whitespace stripped.
Remainder == Strip(Remove(Remove(Remove(Remove(arg, "$"), "£"), "€"), ","))

\* A signed decimal numeral: an optional sign, then digits with at most
\* one decimal point among them and at least one digit.
IsDecimalNumeral(t) ==
    /\ Remove(Unsigned(t), ".") # <<>>
    /\ IsDigits(Remove(Unsigned(t), "."))
    /\ Len(Unsigned(t)) - Len(Remove(Unsigned(t), ".")) <= 1

\* The value of a signed decimal numeral.
NumeralValue(t) ==
    LET u == Unsigned(t)
        dot == FirstIndex(u, {"."})
        frac == IF dot = 0 THEN 0 ELSE Len(u) - dot
    IN  Normalize(IsNeg(t), IntOf(Remove(u, ".")), -frac)

\* C8: amount standardization removes every $, every pound and euro sign
\* and every comma, strips surrounding whitespace and parses the remainder
\* as a signed decimal number: when the remainder is a signed decimal
\* numeral the result is its value with its sign, and when it is not the
\* operation fails.
C8_SignedDecimal ==
    (res.called /\ arg # None) =>
        IF IsDecimalNumeral(Remainder)
        THEN res.ok /\ FloatEq(res.val, NumeralValue(Remainder))
        ELSE ~res.ok

----------------------------------------------------------------------------
(* The constructor on every kind of descriptor.                            *)

\* The descriptors a config path can hold: no file, text that is not JSON,
\* a number, null, and the objects, arrays and strings that hold any
\* subset of the four key names (the objects with the columns as values).
Descriptors ==
    {CfgMissing, CfgInvalid, JsonInt, JsonNull}
        \cup {JsonDict([key \in keys |-> MainConfig.d[key]]) :
                  keys \in SUBSET REQUIRED_KEYS}
        \cup {JsonList(keys) : keys \in SUBSET REQUIRED_KEYS}
        \cup {JsonStr(keys) : keys \in SUBSET REQUIRED_KEYS}

InitConfig ==
    /\ padsYear \in BOOLEAN
    /\ config \in Descriptors
    /\ input = InputText(AllColumns, <<RowCoffee>>)
    /\ output = FileMissing
    /\ procs = [p \in Procs |-> NoProc]
    /\ last = NoCall
    /\ arg = <<>>
    /\ res = NoResult
    /\ db = NoDb

NextConfig ==
    \/ Construct("A")
    \/ LoadTransactions("A")

SpecConfig == InitConfig /\ [][NextConfig]_vars

\* A descriptor that json.load parses.
Parseable == config.k \notin {"missing", "invalid"}

\* A descriptor in which all four keys are present: an object with them.
AllKeysPresent ==
    config.k = "dict" /\ REQUIRED_KEYS \subseteq DOMAIN config.d

\* C5: for every parseable descriptor _load_config returns a mapping with
\* the four keys and the descriptor's values when all four are present,
\* and fails with the ValueError of an invalid configuration when one is
\* absent; it never returns a value in which one of the four keys cannot
\* be looked up.
C5_NoPartialConfig ==
    (last.op = "init" /\ Parseable) =>
        IF AllKeysPresent
        THEN /\ A.state = "ready"
             /\ A.header_mapping.k = "dict"
             /\ \A key \in REQUIRED_KEYS :
                    A.header_mapping.d[key] = config.d[key]
        ELSE /\ A.state = "failed"
             /\ last.err.type = "ValueError"

----------------------------------------------------------------------------
(* Files that lack columns of the mapping.                                 *)

RowBlank == << <<>>, <<>>, <<>>, <<>> >>

LookupRows == {RowCoffee, RowBadAmount, RowShort, RowBlank}

LookupInputs ==
    {InputText(cols, rows) :
         cols \in SUBSET AllColumns, rows \in SeqsUpTo(LookupRows, MaxRows)}

InitLookup ==
    /\ padsYear \in BOOLEAN
    /\ config = MainConfig
    /\ input \in LookupInputs
    /\ output = FileMissing
    /\ procs = [p \in Procs |-> NoProc]
    /\ last = NoCall
    /\ arg = <<>>
    /\ res = NoResult
    /\ db = NoDb

NextLookup ==
    \/ Construct("A")
    \/ LoadTransactions("A")

SpecLookup == InitLookup /\ [][NextLookup]_vars

\* The columns of the mapping that a row of the file does not have.
Absent(row) == {COLUMNS[i] : i \in AllColumns} \ DOMAIN row

\* A row with each absent column of the mapping added, the amount column
\* holding amount and the others the empty string.
Filled(row, amount) ==
    [c \in DOMAIN row \cup Absent(row) |->
        IF c \in DOMAIN row THEN row[c]
        ELSE IF c = MainConfig.d["amount_field"] THEN amount ELSE <<>>]

FilledRows(amount) == [i \in DOMAIN InputRows |-> Filled(InputRows[i], amount)]

\* The first load of the processor, the last call made.
LoadedFirst == A.state = "ready" /\ A.loads = 1 /\ last.op = "load"

\* C4 as stated: a field whose column is absent from the row is extracted
\* as the empty string without an error, for each of date, description,
\* amount and category, and is normalized as an empty string read from
\* the file would be: the load leaves and raises what it would with the
\* absent columns present and empty.
C4_AbsentIsEmpty ==
    LoadedFirst =>
        [transactions |-> get_transactions("A"), err |-> last.err]
            = LoadRows(MainConfig, FilledRows(<<>>), 1, <<>>, padsYear)

\* C4 as amended: a field whose column is absent from the header of the
\* file is extracted without an error as the empty string for date,
\* description and category and as the string "0" for amount, and is
\* normalized as that string read from the file would be; a field that a
\* row too short for its column lacks is extracted as None, on which the
\* normalization of the row fails.
C4_AbsentIsDefault ==
    LoadedFirst =>
        /\ [transactions |-> get_transactions("A"), err |-> last.err]
               = LoadRows(MainConfig, FilledRows(<<"0">>), 1, <<>>, padsYear)
        /\ (\E i \in DOMAIN InputRows :
                \E c \in DOMAIN InputRows[i] : InputRows[i][c] = None)
               => last.err.type = "Exception"

C4_Witness ==
    /\ LoadedFirst
    /\ \E i \in DOMAIN InputRows :
           MainConfig.d["amount_field"] \in Absent(InputRows[i])
    /\ last.err = NoError
    /\ Len(get_transactions("A")) = 2
    /\ FloatEq(get_transactions("A")[1].amount, FloatNum(FALSE, 0, 0))

----------------------------------------------------------------------------
(* Writing and reading back: processor B is constructed on the output      *)
(* path of A with the identity mapping.                                    *)

InitRoundTrip ==
    /\ padsYear \in BOOLEAN
    /\ config = MainConfig
    /\ input \in Inputs
    /\ output = FileMissing
    /\ procs = [p \in Procs |-> NoProc]
    /\ last = NoCall
    /\ arg = <<>>
    /\ res = NoResult
    /\ db = NoDb

NextRoundTrip ==
    \/ Construct("A")
    \/ LoadTransactions("A")
    \/ WriteStandardizedCsv("A")
    \/ Construct("B")
    \/ LoadTransactions("B")

SpecRoundTrip == InitRoundTrip /\ [][NextRoundTrip]_vars

B == procs["B"]

\* Python's == on two transactions.
SameTransaction(t, u) ==
    /\ t.date = u.date
    /\ t.description = u.description
    /\ FloatEq(t.amount, u.amount)
    /\ t.category = u.category

\* The output path holds what write_standardized_csv writes for the
\* sequence A holds.
HoldsSequenceOfA ==
    /\ A.state = "ready"
    /\ A.loads >= 1
    /\ input # FileMissing
    /\ LoadedOnce.err = NoError
    /\ output = write_standardized_csv(get_transactions("A"), FileMissing).file

\* C7: for every sequence load_transactions produced, the empty one
\* included, write_standardized_csv writes it, and loading the written
\* file with the identity mapping yields the same sequence.
C7_RoundTrip ==
    /\ (last.op = "write" /\ A.loads >= 1 /\ input # FileMissing
            /\ LoadedOnce.err = NoError) => last.err = NoError
    /\ (HoldsSequenceOfA /\ last.op = "load" /\ last.p = "B" /\ B.loads = 1)
           => /\ last.err = NoError
              /\ Len(get_transactions("B")) = Len(get_transactions("A"))
              /\ \A i \in DOMAIN get_transactions("A") :
                     SameTransaction(get_transactions("B")[i],
                                     get_transactions("A")[i])

----------------------------------------------------------------------------
(* main() of db_loader.py.  db.pc is the statement main is at; db.loader   *)
(* tells whether the local variable loader is bound; conn and cursor are   *)
(* "none" (the attribute is None), "open" or "closed".                     *)

MainStart ==
    [pc |-> "connect", loader |-> "bound", conn |-> "none", cursor |-> "none",
     printed |-> "", raised |-> NoError]

MainFailed(d, e) == [d EXCEPT !.pc = "except", !.raised = e]

\* The first three statements of the try block and the construction of
\* the loader: c is what the constructor of the processor returns, r what
\* its load_transactions leaves and raises.
Processed(c, r) ==
    db' = IF ~c.ok
          THEN MainFailed([MainStart EXCEPT !.loader = "unbound"], c.err)
          ELSE IF r.err # NoError
          THEN MainFailed([MainStart EXCEPT !.loader = "unbound"], r.err)
          ELSE MainStart

MainProcess ==
    /\ db.pc = "idle"
    /\ Processed(_load_config(config),
                 load_transactions(_load_config(config).val, <<>>, input,
                                   padsYear))
    /\ UNCHANGED <<padsYear, config, input, output, procs, last, arg, res>>

\* loader.connect(): psycopg2.connect may raise, and so may conn.cursor()
\* once self.conn is set; a psycopg2.Error is raised again as Exception.
MainConnect ==
    /\ db.pc = "connect"
    /\ \/ db' = [db EXCEPT !.pc = "create", !.conn = "open", !.cursor = "open"]
       \/ db' = MainFailed(db, Raise("Exception",
                                     <<"Database connection error: ">>, None))
       \/ db' = MainFailed([db EXCEPT !.conn = "open"],
                           Raise("Exception",
                                 <<"Database connection error: ">>, None))
    /\ UNCHANGED <<padsYear, config, input, output, procs, last, arg, res>>

\* loader.create_transactions_table()
MainCreateTable ==
    /\ db.pc = "create"
    /\ \/ db' = [db EXCEPT !.pc = "insert"]
       \/ db' = MainFailed(db, Raise("Exception",
                                     <<"Error creating table: ">>, None))
    /\ UNCHANGED <<padsYear, config, input, output, procs, last, arg, res>>

\* loader.load_transactions(transactions) and the print that follows it.
MainInsert ==
    /\ db.pc = "insert"
    /\ \/ db' = [db EXCEPT !.pc = "finally", !.printed = "success"]
       \/ db' = MainFailed(db, Raise("Exception",
                                     <<"Error loading transactions: ">>, None))
    /\ UNCHANGED <<padsYear, config, input, output, procs, last, arg, res>>

\* except Exception as e: print(f"Error: {str(e)}")
MainExcept ==
    /\ db.pc = "except"
    /\ db' = [db EXCEPT !.pc = "finally", !.printed = "error",
                        !.raised = NoError]
    /\ UNCHANGED <<padsYear, config, input, output, procs, last, arg, res>>

\* PostgresTransactionLoader.close()
close(d) ==
    [d EXCEPT !.cursor = IF @ = "open" THEN "closed" ELSE @,
              !.conn = IF @ = "open" THEN "closed" ELSE @]

\* finally: loader.close().  Reading the local variable loader before it
\* is bound raises UnboundLocalError, which leaves main.
MainFinally ==
    /\ db.pc = "finally"
    /\ db' = IF db.loader = "unbound"
             THEN [db EXCEPT !.pc = "done",
                             !.raised = Raise("UnboundLocalError",
                                              <<"cannot access local variable 'loader'">>,
                                              None)]
             ELSE [close(db) EXCEPT !.pc = "done"]
    /\ UNCHANGED <<padsYear, config, input, output, procs, last, arg, res>>

InitDb ==
    /\ padsYear \in BOOLEAN
    /\ config \in Configs
    /\ input \in Inputs
    /\ output = FileMissing
    /\ procs = [p \in Procs |-> NoProc]
    /\ last = NoCall
    /\ arg = <<>>
    /\ res = NoResult
    /\ db = NoDb

NextDb ==
    \/ MainProcess
    \/ MainConnect
    \/ MainCreateTable
    \/ MainInsert
    \/ MainExcept
    \/ MainFinally

SpecDb == InitDb /\ [][NextDb]_vars

\* C9: in every run of main, whichever step fails or if none does, every
\* connection and cursor that was opened is closed when main returns, and
\* the release step does not raise.
C9_ReleasedOnEveryPath ==
    db.pc = "done" =>
        /\ db.conn # "open"
        /\ db.cursor # "open"
        /\ db.raised = NoError

====
